---- MODULE Spec2Model ----
(***************************************************************************)
(* Peering-session reconciliation of peering-manager                       *)
(* (src/peering/models/models.py): the four poll operations that copy the  *)
(* BGP state reported by routers into the stored session records, the      *)
(* import of sessions from a router's neighbor list and the query for the  *)
(* peers available at an exchange; then the test for an abandoned session, *)
(* the NAPALM driver arguments, configuration pushes and neighbor fetches  *)
(* of a router, the normalizer of a router's neighbor list and two         *)
(* overlapping imports.                                                    *)
(*                                                                         *)
(* One action models one whole call.  The device's answer to each          *)
(* neighbor-detail query is the input of the call.  A call that raises     *)
(* inside transaction.atomic leaves the stored tables as they were.        *)
(***************************************************************************)
EXTENDS Integers, Sequences, FiniteSets, TLC

VARIABLES
    direct,   \* DirectPeeringSession table: id -> row
    ixps,     \* InternetExchangePeeringSession table: id -> row
    groups,   \* BGPGroup table: name -> row
    ixs,      \* InternetExchange table: name -> row
    connections, \* net.Connection table: id -> row
    autonomous_systems, \* AutonomousSystem table: the set of its rows
    routers,  \* Router table: name -> row
    NAPALM_ARGS, \* settings.NAPALM_ARGS, the process-wide dict of driver arguments
    inflight, \* the import_sessions transactions that have begun and not ended
    now,      \* the clock timezone.now() reads
    last      \* what the last call did: operation, result, device calls, save() calls

vars == <<direct, ixps, groups, ixs, connections, autonomous_systems, routers,
          NAPALM_ARGS, inflight, now, last>>

(***************************************************************************)
(* Bounds                                                                  *)
(***************************************************************************)
\* Number of calls a behaviour makes; every call reads a later clock value.
MaxTime == 2

(***************************************************************************)
(* The objects of the model                                                *)
(***************************************************************************)
Routers == {"r1", "r2"}
IPs == {"a", "b"}
Groups == {"g1", "g2"}
IXPs == {"ix1", "ix2", "ix3"}

\* A null foreign key.
Null == "null"

\* Router rows: r3 has no platform, so no NAPALM driver.
\* The keys of a napalm_args dict, and the value of a key the dict lacks.
ArgKeys == {"port", "secret"}
Unset == "unset"
NoArgs == [k \in ArgKeys |-> Unset]

\* DeviceState
Enabled == "enabled"
Disabled == "disabled"
Maintenance == "maintenance"

\* A Router row: platform tells whether it has a platform with a NAPALM
\* driver, platform_args are that platform's napalm_args.
RouterRow(platform, platform_args, napalm_args, device_state) ==
    [platform |-> platform, platform_args |-> platform_args,
     napalm_args |-> napalm_args, device_state |-> device_state]

RouterRows ==
    [r1 |-> RouterRow(TRUE, NoArgs, NoArgs, Enabled),
     r2 |-> RouterRow(TRUE, NoArgs, NoArgs, Enabled),
     r3 |-> RouterRow(FALSE, NoArgs, NoArgs, Enabled)]

\* net.Connection rows: c1 and c2 attach r1 and r2 to ix1, c3 attaches r1 to
\* ix2; c4 has no router and c5 a router without platform; ix3 is never
\* connected.
ConnectionRows ==
    [c1 |-> [internet_exchange_point |-> "ix1", router |-> "r1"],
     c2 |-> [internet_exchange_point |-> "ix1", router |-> "r2"],
     c3 |-> [internet_exchange_point |-> "ix2", router |-> "r1"],
     c4 |-> [internet_exchange_point |-> "ix1", router |-> Null],
     c5 |-> [internet_exchange_point |-> "ix1", router |-> "r3"]]

\* A deployment with no connection to any exchange.
NoConnection == [c \in {} |-> [internet_exchange_point |-> "ix1", router |-> "r1"]]

\* BGPState.ESTABLISHED
ESTABLISHED == "established"

\* Python's None for a prefix count, and an integer count.
None == [some |-> FALSE, v |-> 0]

Some(n) == [some |-> TRUE, v |-> n]

\* The prefix counts a router reports for a neighbor (received, advertised):
\* a positive, a negative and a missing one.
ReportedCounts == {<<Some(1), Some(-1)>>, <<None, Some(1)>>}

\* One neighbor-detail record of NAPALM's get_bgp_neighbors_detail.
Records ==
    {[remote_address |-> ip, connection_state |-> s,
      received_prefix_count |-> c[1], advertised_prefix_count |-> c[2]] :
        ip \in IPs, s \in {"Established", "Idle"}, c \in ReportedCounts}

\* A VRF's neighbors (the ASN level flattened: no poll reads the ASN key).
VrfContents == {<<>>} \cup {<<r>> : r \in Records}

\* What one router answers to one neighbor-detail fetch: the connection does
\* not open, the query raises, or the VRF -> neighbors data comes back.
DeviceOutcomes ==
    {[kind |-> "open_failed", vrfs |-> <<>>],
     [kind |-> "query_error", vrfs |-> <<>>],
     [kind |-> "data", vrfs |-> <<>>]}
    \cup {[kind |-> "data", vrfs |-> <<v>>] : v \in VrfContents}

\* str.lower() on the connection state strings routers report.
Lower(s) ==
    CASE s = "Established" -> "established"
      [] s = "Idle" -> "idle"
      [] s = "Active" -> "active"
      [] OTHER -> s

\* The orders in which a loop may visit the set S.
Orders(S) ==
    {o \in [1..Cardinality(S) -> S] : \A i, j \in 1..Cardinality(S) : o[i] = o[j] => i = j}

(***************************************************************************)
(* Stored state                                                            *)
(***************************************************************************)
\* A session row as it is before any poll has seen it; 0 is the null
\* timestamp (the clock starts at 0 and every call reads a later value).
NewDirect(ip, g, r) ==
    [ip_address |-> ip, bgp_group |-> g, router |-> r, bgp_state |-> "idle",
     received_prefix_count |-> 0, advertised_prefix_count |-> 0,
     last_established_state |-> 0]

NewIxpSession(ip, c) ==
    [ip_address |-> ip, ixp_connection |-> c, bgp_state |-> "idle",
     received_prefix_count |-> 0, advertised_prefix_count |-> 0,
     last_established_state |-> 0]

NoDirect == [d \in {} |-> NewDirect("a", "g1", "r1")]

NoIxpSession == [x \in {} |-> NewIxpSession("a", "c1")]

\* Two direct sessions in group g1, the second on either router with either
\* address (the same address on the same router is a duplicate row).
DirectLayouts ==
    {[d1 |-> NewDirect("a", "g1", "r1"), d2 |-> NewDirect(ip, "g1", r)] :
        ip \in IPs, r \in Routers}

\* Two IXP sessions: x1 on ix1 through r1, x2 with either address on a second
\* connection, which attaches r2 to ix1 or r1 to ix2.
IxpLayouts ==
    {[ixps |-> [x1 |-> NewIxpSession("a", "c1"), x2 |-> NewIxpSession(ip, c)],
      connections |-> [k \in {"c1", c} |-> ConnectionRows[k]]] :
        ip \in IPs, c \in {"c2", "c3"}}

NewScope(check) == [check_bgp_session_states |-> check, bgp_session_states_update |-> 0]

\* The keys of the NAPALM optional arguments, and the value of a key no
\* level sets.


\* settings.NAPALM_ARGS as configured: the global level sets the port.
GlobalArgs == [k \in ArgKeys |-> IF k = "port" THEN "global" ELSE Unset]

\* No transaction in flight.
NoRun == <<>>

\* What no call of the model's poll, import and query operations touches.
ProcessUnchanged == UNCHANGED <<routers, NAPALM_ARGS, inflight>>

NoCall ==
    [op |-> "none", scope |-> "", ret |-> "", exc |-> "none", calls |-> <<>>,
     live |-> {}, reported |-> {}, saves |-> <<>>]

Init ==
    /\ now = 0
    /\ last = NoCall
    /\ autonomous_systems = {}
    /\ routers = RouterRows
    /\ NAPALM_ARGS = GlobalArgs
    /\ inflight = NoRun
    /\ \E check \in BOOLEAN :
        \/ /\ direct \in DirectLayouts
           /\ ixps = NoIxpSession
           /\ connections = NoConnection
           /\ groups = [g \in Groups |-> NewScope(IF g = "g1" THEN check ELSE TRUE)]
           /\ ixs = [i \in IXPs |-> NewScope(TRUE)]
        \/ /\ direct = NoDirect
           /\ \E layout \in IxpLayouts :
                /\ ixps = layout.ixps
                /\ connections = layout.connections
           /\ groups = [g \in Groups |-> NewScope(TRUE)]
           /\ ixs = [i \in IXPs |-> NewScope(IF i = "ix1" THEN check ELSE TRUE)]

(***************************************************************************)
(* The database during one call                                            *)
(***************************************************************************)
\* The tables, the save() calls made so far and the exception raised, if any.
Db == [direct |-> direct, ixps |-> ixps, groups |-> groups, ixs |-> ixs,
       autonomous_systems |-> autonomous_systems, saves |-> <<>>, exc |-> "none"]

Raise(st, e) == [st EXCEPT !.exc = e]

\* A faulty variant of Atomic that keeps the writes of a block that raised.
AtomicNoRollback(before, after) == after

\* transaction.atomic: the block's writes are kept unless it raised.
Atomic(before, after) ==
    IF after.exc = "none" THEN after
    ELSE [before EXCEPT !.exc = after.exc, !.saves = after.saves]

\* Router.get_bgp_neighbors_detail() without ip_address: [] when the
\* connection does not open, else the device's VRF map.
Detail(outcome) == IF outcome.kind = "data" THEN outcome.vrfs ELSE <<>>

\* Router.bgp_neighbors_detail_as_list
RECURSIVE bgp_neighbors_detail_as_list(_)
bgp_neighbors_detail_as_list(vrfs) ==
    IF vrfs = <<>> THEN <<>>
    ELSE Head(vrfs) \o bgp_neighbors_detail_as_list(Tail(vrfs))

\* What a call leaves behind: the tables and the record of the call, which
\* names the routers queried in order, those among them that returned
\* neighbor data, and the addresses that data reported.
Finish(st, op, scope, ret, calls, dev) ==
    LET queried == {calls[i] : i \in 1..Len(calls)}
        recs(r) == bgp_neighbors_detail_as_list(Detail(dev[r]))
    IN /\ direct' = st.direct
       /\ ixps' = st.ixps
       /\ groups' = st.groups
       /\ ixs' = st.ixs
       /\ connections' = connections
       /\ autonomous_systems' = st.autonomous_systems
       /\ ProcessUnchanged
       /\ now' = now + 1
       /\ last' = [op |-> op, scope |-> scope,
                   ret |-> IF st.exc = "none" THEN ret ELSE "raised",
                   exc |-> st.exc,
                   calls |-> calls,
                   live |-> {r \in queried : Detail(dev[r]) # <<>>},
                   reported |-> UNION {{recs(r)[i].remote_address : i \in 1..Len(recs(r))} :
                                        r \in queried},
                   saves |-> st.saves]

\* A call that queries no router.
NoDevice == [r \in {} |-> [kind |-> "open_failed", vrfs |-> <<>>]]

\* timezone.now() as read during the call being made.
Clock == now + 1

(***************************************************************************)
(* BGPGroup.poll_peering_sessions                                          *)
(***************************************************************************)
\* "x if x > 0 else 0" on an integer count.
Clamp(n) == IF n > 0 THEN n ELSE 0

\* A faulty variant of GroupMatch that does not compare the address.
GroupMatchAnyAddress(tbl, g, r, ip) ==
    {d \in DOMAIN tbl : tbl[d].bgp_group = g /\ tbl[d].router = r}

\* DirectPeeringSession.objects.get(ip_address=..., bgp_group=..., router=...)
GroupMatch(tbl, g, r, ip) ==
    {d \in DOMAIN tbl :
        tbl[d].ip_address = ip /\ tbl[d].bgp_group = g /\ tbl[d].router = r}

\* The update of one matched row from one neighbor record; comparing None
\* with 0 raises TypeError before save() is reached.
GroupUpdate(st, d, rec) ==
    IF ~rec.received_prefix_count.some \/ ~rec.advertised_prefix_count.some
    THEN Raise(st, "TypeError")
    ELSE LET state == Lower(rec.connection_state)
         IN [st EXCEPT
                !.direct[d].bgp_state = state,
                !.direct[d].received_prefix_count = Clamp(rec.received_prefix_count.v),
                !.direct[d].advertised_prefix_count = Clamp(rec.advertised_prefix_count.v),
                !.direct[d].last_established_state =
                    IF state = ESTABLISHED THEN Clock ELSE @,
                !.saves = Append(@, "session")]

\* The body of the loop over one router's flattened records.
RECURSIVE GroupApply(_, _, _, _)
GroupApply(st, g, r, recs) ==
    IF recs = <<>> \/ st.exc # "none" THEN st
    ELSE LET rec == Head(recs)
             m == GroupMatch(st.direct, g, r, rec.remote_address)
             next == IF m = {} THEN st
                     ELSE IF Cardinality(m) > 1 THEN Raise(st, "MultipleObjectsReturned")
                     ELSE GroupUpdate(st, CHOOSE d \in m : TRUE, rec)
         IN GroupApply(next, g, r, Tail(recs))

\* The loop over bgp_neighbors_detail.items(), in the order the routers were
\* inserted.
RECURSIVE GroupApplyRouters(_, _, _, _)
GroupApplyRouters(st, g, order, dev) ==
    IF order = <<>> \/ st.exc # "none" THEN st
    ELSE GroupApplyRouters(
            GroupApply(st, g, Head(order), bgp_neighbors_detail_as_list(Detail(dev[Head(order)]))),
            g, Tail(order), dev)

\* The last-poll timestamp, saved at the end of the atomic block.
GroupStamp(st, g) ==
    IF st.exc # "none" THEN st
    ELSE [st EXCEPT !.groups[g].bgp_session_states_update = Clock,
                    !.saves = Append(@, "timestamp")]

\* The routers queried by the fetch loop: all of them, or those up to and
\* including the first whose query raises.
RECURSIVE FetchCalls(_, _)
FetchCalls(order, dev) ==
    IF order = <<>> THEN <<>>
    ELSE IF dev[Head(order)].kind = "query_error" THEN <<Head(order)>>
    ELSE <<Head(order)>> \o FetchCalls(Tail(order), dev)

GroupCheck(g) == groups[g].check_bgp_session_states

GroupRouters(g) == {direct[d].router : d \in {e \in DOMAIN direct : direct[e].bgp_group = g}}

GroupPoll(g) ==
    /\ now < MaxTime
    /\ IF ~GroupCheck(g) THEN Finish(Db, "group_poll", g, "False", <<>>, NoDevice)
       ELSE IF GroupRouters(g) = {} THEN Finish(Db, "group_poll", g, "False", <<>>, NoDevice)
       ELSE \E order \in Orders(GroupRouters(g)), dev \in [GroupRouters(g) -> DeviceOutcomes] :
            LET calls == FetchCalls(order, dev)
            IN IF dev[calls[Len(calls)]].kind = "query_error"
               THEN Finish(Raise(Db, "DeviceError"), "group_poll", g, "True", calls, dev)
               ELSE Finish(Atomic(Db, GroupStamp(GroupApplyRouters(Db, g, order, dev), g)),
                           "group_poll", g, "True", calls, dev)

(***************************************************************************)
(* InternetExchange.poll_peering_sessions                                  *)
(***************************************************************************)
\* InternetExchange.get_connections
get_connections(ix) ==
    {c \in DOMAIN connections : connections[c].internet_exchange_point = ix}

\* InternetExchange.get_routers
get_routers(ix) == {connections[c].router : c \in get_connections(ix)}

\* InternetExchange.get_peering_sessions
get_peering_sessions(ix) ==
    {x \in DOMAIN ixps : ixps[x].ixp_connection \in get_connections(ix)}

\* "x or 0" on a count: None and 0 give 0, any other integer is kept.
OrZero(c) == IF c.some /\ c.v # 0 THEN c.v ELSE 0

\* InternetExchangePeeringSession.objects.get(ip_address=...): the lookup
\* names no exchange and no connection.
IxpMatch(tbl, ip) == {x \in DOMAIN tbl : tbl[x].ip_address = ip}

IxpUpdate(st, x, rec) ==
    LET state == Lower(rec.connection_state)
    IN [st EXCEPT
            !.ixps[x].bgp_state = state,
            !.ixps[x].received_prefix_count = OrZero(rec.received_prefix_count),
            !.ixps[x].advertised_prefix_count = OrZero(rec.advertised_prefix_count),
            !.ixps[x].last_established_state =
                IF state = ESTABLISHED THEN Clock ELSE @,
            !.saves = Append(@, "session")]

\* The loop over one VRF's sessions.
RECURSIVE IxpApply(_, _)
IxpApply(st, recs) ==
    IF recs = <<>> \/ st.exc # "none" THEN st
    ELSE LET rec == Head(recs)
             m == IxpMatch(st.ixps, rec.remote_address)
             next == IF m = {} THEN st
                     ELSE IF Cardinality(m) > 1 THEN Raise(st, "MultipleObjectsReturned")
                     ELSE IxpUpdate(st, CHOOSE x \in m : TRUE, rec)
         IN IxpApply(next, Tail(recs))

\* The last-poll timestamp, saved at the end of each VRF of each router.
IxpStamp(st, ix) ==
    IF st.exc # "none" THEN st
    ELSE [st EXCEPT !.ixs[ix].bgp_session_states_update = Clock,
                    !.saves = Append(@, "timestamp")]

\* The loop over one router's VRFs.
RECURSIVE IxpApplyVrfs(_, _, _)
IxpApplyVrfs(st, ix, vrfs) ==
    IF vrfs = <<>> \/ st.exc # "none" THEN st
    ELSE IxpApplyVrfs(IxpStamp(IxpApply(st, Head(vrfs)), ix), ix, Tail(vrfs))

\* The loop over the connected routers: a router without data ends the call
\* with False, a raising query ends it with the exception.
RECURSIVE IxpLoop(_, _, _, _, _)
IxpLoop(st, ix, calls, order, dev) ==
    IF order = <<>> THEN [st |-> st, ret |-> "True", calls |-> calls]
    ELSE LET r == Head(order)
             called == Append(calls, r)
         IN IF dev[r].kind = "query_error"
            THEN [st |-> Raise(st, "DeviceError"), ret |-> "True", calls |-> called]
            ELSE IF Detail(dev[r]) = <<>>
            THEN [st |-> st, ret |-> "False", calls |-> called]
            ELSE LET applied == IxpApplyVrfs(st, ix, Detail(dev[r]))
                 IN IF applied.exc # "none"
                    THEN [st |-> applied, ret |-> "True", calls |-> called]
                    ELSE IxpLoop(applied, ix, called, Tail(order), dev)

\* A faulty variant of IxpCheck that polls whatever the toggle says.
IxpCheckIgnored(ix) == TRUE

IxpCheck(ix) == ixs[ix].check_bgp_session_states

IxpPoll(ix) ==
    /\ now < MaxTime
    /\ IF Cardinality(get_routers(ix)) < 0 THEN Finish(Db, "ixp_poll", ix, "False", <<>>, NoDevice)
       ELSE IF ~IxpCheck(ix) THEN Finish(Db, "ixp_poll", ix, "False", <<>>, NoDevice)
       ELSE \E order \in Orders(get_routers(ix)), dev \in [get_routers(ix) -> DeviceOutcomes] :
            LET res == IxpLoop(Db, ix, <<>>, order, dev)
            IN Finish(Atomic(Db, res.st), "ixp_poll", ix, res.ret, res.calls, dev)

(***************************************************************************)
(* DirectPeeringSession.poll and InternetExchangePeeringSession.poll       *)
(***************************************************************************)
\* Router.find_bgp_neighbor_detail: the first neighbor with the address, in
\* a dict; anything that is not a dict ([] after a failed open) gives None.
RECURSIVE FindIn(_, _)
FindIn(recs, ip) ==
    IF recs = <<>> THEN <<>>
    ELSE IF Head(recs).remote_address = ip THEN <<Head(recs)>>
    ELSE FindIn(Tail(recs), ip)

find_bgp_neighbor_detail(outcome, ip) ==
    IF outcome.kind # "data" THEN <<>>
    ELSE FindIn(bgp_neighbors_detail_as_list(outcome.vrfs), ip)

\* "not router or not router.platform"
NoUsableRouter(r) == r = Null \/ ~routers[r].platform

\* BGPSession is declared in peering/models/abstracts.py; the check-disabled
\* branch of DirectPeeringSession.poll formats self.name, taken here to be an
\* attribute that class declares, so that the branch returns False.
BGPSessionHasName == TRUE

DirectSessionPoll(d) ==
    /\ now < MaxTime
    /\ d \in DOMAIN direct
    /\ IF NoUsableRouter(direct[d].router)
       THEN Finish(Db, "direct_poll", d, "False", <<>>, NoDevice)
       ELSE IF ~groups[direct[d].bgp_group].check_bgp_session_states
       THEN Finish(IF BGPSessionHasName THEN Db ELSE Raise(Db, "AttributeError"),
                   "direct_poll", d, "False", <<>>, NoDevice)
       ELSE \E outcome \in DeviceOutcomes :
            LET found == find_bgp_neighbor_detail(outcome, direct[d].ip_address)
                calls == <<direct[d].router>>
                dev == [r \in {direct[d].router} |-> outcome]
            IN IF outcome.kind = "query_error"
               THEN Finish(Raise(Db, "DeviceError"), "direct_poll", d, "False", calls, dev)
               ELSE IF found = <<>>
               THEN Finish(Db, "direct_poll", d, "False", calls, dev)
               ELSE Finish(GroupUpdate(Db, d, found[1]), "direct_poll", d, "True", calls, dev)

\* The update of InternetExchangePeeringSession.poll: the same clamping as
\* the direct session's.
IxpSessionUpdate(st, x, rec) ==
    IF ~rec.received_prefix_count.some \/ ~rec.advertised_prefix_count.some
    THEN Raise(st, "TypeError")
    ELSE LET state == Lower(rec.connection_state)
         IN [st EXCEPT
                !.ixps[x].bgp_state = state,
                !.ixps[x].received_prefix_count = Clamp(rec.received_prefix_count.v),
                !.ixps[x].advertised_prefix_count = Clamp(rec.advertised_prefix_count.v),
                !.ixps[x].last_established_state =
                    IF state = ESTABLISHED THEN Clock ELSE @,
                !.saves = Append(@, "session")]

IxpSessionPoll(x) ==
    /\ now < MaxTime
    /\ x \in DOMAIN ixps
    /\ IF ixps[x].ixp_connection = Null
       THEN \* self.ixp_connection.router on a session without connection
            Finish(Raise(Db, "AttributeError"), "ixp_session_poll", x, "False", <<>>, NoDevice)
       ELSE IF NoUsableRouter(connections[ixps[x].ixp_connection].router)
       THEN Finish(Db, "ixp_session_poll", x, "False", <<>>, NoDevice)
       ELSE \E outcome \in DeviceOutcomes :
        LET found == find_bgp_neighbor_detail(outcome, ixps[x].ip_address)
            calls == <<connections[ixps[x].ixp_connection].router>>
            dev == [r \in {connections[ixps[x].ixp_connection].router} |-> outcome]
        IN IF outcome.kind = "query_error"
           THEN Finish(Raise(Db, "DeviceError"), "ixp_session_poll", x, "False", calls, dev)
           ELSE IF found = <<>>
           THEN Finish(Db, "ixp_session_poll", x, "False", calls, dev)
           ELSE Finish(IxpSessionUpdate(Db, x, found[1]), "ixp_session_poll", x, "True", calls, dev)

DirectIds == {"d1", "d2"}
IxpSessionIds == {"x1", "x2"}

Next ==
    \/ \E g \in Groups : GroupPoll(g)
    \/ \E ix \in IXPs : IxpPoll(ix)
    \/ \E d \in DirectIds : DirectSessionPoll(d)
    \/ \E x \in IxpSessionIds : IxpSessionPoll(x)

Spec == Init /\ [][Next]_vars

(***************************************************************************)
(* The per-session polls on sessions with and without a usable router      *)
(***************************************************************************)
\* One direct session on a router with a platform, on one without, or on no
\* router, next to a second session on r1; or one IXP session on a connection
\* whose router is usable, missing or without platform, or on no connection,
\* next to a second session on c1.
InitSession ==
    /\ now = 0
    /\ last = NoCall
    /\ autonomous_systems = {}
    /\ routers = RouterRows
    /\ NAPALM_ARGS = GlobalArgs
    /\ inflight = NoRun
    /\ connections = ConnectionRows
    /\ ixs = [i \in IXPs |-> NewScope(TRUE)]
    /\ \/ /\ \E r \in {"r1", "r3", Null}, check \in BOOLEAN :
                /\ direct = [d1 |-> NewDirect("a", "g1", r), d2 |-> NewDirect("b", "g1", "r1")]
                /\ groups = [g \in Groups |-> NewScope(IF g = "g1" THEN check ELSE TRUE)]
          /\ ixps = NoIxpSession
       \/ /\ \E c \in {"c1", "c4", "c5", Null} :
                ixps = [x1 |-> NewIxpSession("a", c), x2 |-> NewIxpSession("b", "c1")]
          /\ direct = NoDirect
          /\ groups = [g \in Groups |-> NewScope(TRUE)]

NextSession ==
    \/ \E d \in DirectIds : DirectSessionPoll(d)
    \/ \E x \in IxpSessionIds : IxpSessionPoll(x)

SpecSession == InitSession /\ [][NextSession]_vars

(***************************************************************************)
(* Addresses and the PeeringDB cache                                       *)
(***************************************************************************)
\* An ipaddress.IPv4Address or IPv6Address: the family and the number.
Addr(version, host) == [version |-> version, host |-> host]

\* A null address column.
NoAddr == Addr(0, 0)

\* The address strings a router may report: "6.3x" is another spelling of
\* "6.3" (upper case, or not compressed), "bad" is no address.
AddressStrings == {"4.1", "6.1", "6.3", "6.3x", "bad"}

\* ipaddress.ip_address(string): the parsed address, or none on ValueError.
ip_address(s) ==
    CASE s = "4.1" -> <<Addr(4, 1)>>
      [] s = "6.1" -> <<Addr(6, 1)>>
      [] s = "6.3" -> <<Addr(6, 3)>>
      [] s = "6.3x" -> <<Addr(6, 3)>>
      [] OTHER -> <<>>

\* str(address): the one canonical spelling.
Str(a) ==
    CASE a = Addr(4, 1) -> "4.1"
      [] a = Addr(6, 1) -> "6.1"
      [] a = Addr(6, 3) -> "6.3"
      [] OTHER -> "?"

\* peeringdb.Network: the ASNs PeeringDB has a network record for (AS 3 has
\* none).
Networks == {1, 2}

\* peeringdb.IXLanPrefix rows; a prefix is its family and the numbers it
\* covers. lan1 has a v4 prefix over 1..2 and a v6 prefix over 3..4.
IXLanPrefixes ==
    <<[ixlan |-> "lan1", prefix |-> [version |-> 4, hosts |-> 1..2]],
      [ixlan |-> "lan1", prefix |-> [version |-> 6, hosts |-> 3..4]],
      [ixlan |-> "lan2", prefix |-> [version |-> 4, hosts |-> 9..9]]>>

\* peeringdb.NetworkIXLan rows in table order: the members of the exchange
\* LANs with their addresses (NoAddr when the member has none in a family).
NetworkIXLans ==
    <<[asn |-> 3, ixlan |-> "lan1", ipaddr4 |-> Addr(4, 2), ipaddr6 |-> NoAddr],
      [asn |-> 2, ixlan |-> "lan1", ipaddr4 |-> Addr(4, 1), ipaddr6 |-> Addr(6, 3)],
      [asn |-> 1, ixlan |-> "lan1", ipaddr4 |-> Addr(4, 8), ipaddr6 |-> NoAddr],
      [asn |-> 2, ixlan |-> "lan2", ipaddr4 |-> Addr(4, 9), ipaddr6 |-> NoAddr],
      [asn |-> 2, ixlan |-> "lan1", ipaddr4 |-> Addr(4, 7), ipaddr6 |-> Addr(6, 4)]>>

\* An InternetExchange row with its PeeringDB link and its local AS.
LinkedScope(ixlan) ==
    [check_bgp_session_states |-> TRUE, bgp_session_states_update |-> 0,
     peeringdb_ixlan |-> ixlan, local_autonomous_system |-> 1]

\* InternetExchange.linked_to_peeringdb
linked_to_peeringdb(ix) == ixs[ix].peeringdb_ixlan # Null

\* InternetExchange.get_prefixes
get_prefixes(ix) ==
    IF ~linked_to_peeringdb(ix) THEN <<>>
    ELSE SelectSeq(IXLanPrefixes, LAMBDA p : p.ixlan = ixs[ix].peeringdb_ixlan)

(***************************************************************************)
(* Router.get_bgp_neighbors                                                *)
(***************************************************************************)
\* What a device holds for one peer: the details with or without remote_as.
NoRemoteAs == [has_remote_as |-> FALSE, remote_as |-> 0]

RemoteAs(n) == [has_remote_as |-> TRUE, remote_as |-> n]

\* The peers a router may hold: every well-formed address with AS 2 or AS 3,
\* a malformed address and a peer without remote_as.
Peers ==
    {[ip |-> s, details |-> RemoteAs(n)] : s \in AddressStrings \ {"bad"}, n \in {2, 3}}
        \cup {[ip |-> "bad", details |-> RemoteAs(2)], [ip |-> "4.1", details |-> NoRemoteAs]}

\* NAPALM's get_bgp_neighbors: the VRFs in iteration order, each with the
\* items of its "peers" mapping.
NapalmDicts ==
    {<<>>} \cup {<<<<e>>>> : e \in Peers} \cup {<<<<e>>, <<f>>>> : e, f \in Peers}

NeighborOutcomes ==
    {[kind |-> k, vrfs |-> <<>>] : k \in {"open_failed", "query_error"}}
        \cup {[kind |-> "data", vrfs |-> v] : v \in NapalmDicts}

\* The loop over one VRF's peers in Router._napalm_bgp_neighbors_to_peer_list.
RECURSIVE PeerListAdd(_, _)
PeerListAdd(bgp_peers, peers) ==
    IF peers = <<>> THEN bgp_peers
    ELSE LET ip == Head(peers).ip
             details == Head(peers).details
             seen == {Str(bgp_peers[i].ip_address) : i \in 1..Len(bgp_peers)}
             next == IF ~details.has_remote_as THEN bgp_peers
                     ELSE IF ip \in seen THEN bgp_peers
                     ELSE IF ip_address(ip) = <<>> THEN bgp_peers
                     ELSE Append(bgp_peers, [ip_address |-> ip_address(ip)[1],
                                             remote_asn |-> details.remote_as])
         IN PeerListAdd(next, Tail(peers))

RECURSIVE PeerListVrfs(_, _)
PeerListVrfs(bgp_peers, napalm_dict) ==
    IF napalm_dict = <<>> THEN bgp_peers
    ELSE PeerListVrfs(PeerListAdd(bgp_peers, Head(napalm_dict)), Tail(napalm_dict))

\* Router._napalm_bgp_neighbors_to_peer_list
napalm_bgp_neighbors_to_peer_list(napalm_dict) == PeerListVrfs(<<>>, napalm_dict)

\* Router.get_napalm_bgp_neighbors when the query does not raise: [] when
\* the connection does not open.
get_napalm_bgp_neighbors(outcome) ==
    IF outcome.kind = "data" THEN napalm_bgp_neighbors_to_peer_list(outcome.vrfs)
    ELSE <<>>

(***************************************************************************)
(* InternetExchange.import_sessions                                        *)
(***************************************************************************)
\* A faulty variant of ImportedSession that leaves the connection out.
ImportedSessionNoConnection(asn, c, ip) ==
    NewIxpSession(ip, Null) @@ [autonomous_system |-> asn]

\* A session row as objects.create(autonomous_system, ixp_connection,
\* ip_address) stores it.
ImportedSession(asn, c, ip) == NewIxpSession(ip, c) @@ [autonomous_system |-> asn]

\* A faulty variant of is_valid that does not compare the address families.
IsValidAnyFamily(allowed_prefixes, ip) ==
    \E i \in 1..Len(allowed_prefixes) : ip.host \in allowed_prefixes[i].prefix.hosts

\* is_valid, the closure of import_sessions.
is_valid(allowed_prefixes, ip) ==
    \E i \in 1..Len(allowed_prefixes) :
        /\ allowed_prefixes[i].prefix.version = ip.version
        /\ ip.host \in allowed_prefixes[i].prefix.hosts

\* A faulty variant of SessionLookup that never finds a session.
SessionLookupSkipped(tbl, c, ip) == {}

\* InternetExchangePeeringSession.objects.get(ixp_connection=..., ip_address=...)
SessionLookup(tbl, c, ip) ==
    {x \in DOMAIN tbl : tbl[x].ixp_connection = c /\ tbl[x].ip_address = ip}

\* An AutonomousSystem row.
AsRow(pk, asn, name) == [pk |-> pk, asn |-> asn, name |-> name]

\* The ASNs that have a row, and the rows of an ASN.
Asns(tbl) == {row.asn : row \in tbl}
AsLookup(tbl, asn) == {row \in tbl : row.asn = asn}

\* A table of rows entered by hand for the ASNs listed, in that order.
LocalTable(asns) == {AsRow(i, asns[i], "local") : i \in 1..Len(asns)}

\* AutonomousSystem.objects.get_or_create(asn=..., defaults={name: ...}): the
\* row of the ASN as it is stored, or a new row with the defaults.
get_or_create(tbl, asn, name) ==
    IF AsLookup(tbl, asn) # {} THEN [tbl |-> tbl, rows |-> AsLookup(tbl, asn)]
    ELSE LET row == AsRow(Cardinality(tbl) + 1, asn, name)
         IN [tbl |-> tbl \cup {row}, rows |-> {row}]

\* A faulty variant of create_from_peeringdb that creates the AS whether or
\* not PeeringDB knows the network.
CreateWithoutNetwork(st, asn) ==
    LET got == get_or_create(st.autonomous_systems, asn, "peeringdb")
    IN [st |-> [st EXCEPT !.autonomous_systems = got.tbl], found |-> TRUE, rows |-> got.rows]

\* AutonomousSystem.create_from_peeringdb: None without a Network record,
\* else get_or_create on the ASN with the network's name as default.
create_from_peeringdb(st, asn) ==
    IF asn \notin Networks THEN [st |-> st, found |-> FALSE, rows |-> {}]
    ELSE LET got == get_or_create(st.autonomous_systems, asn, "peeringdb")
         IN [st |-> [st EXCEPT !.autonomous_systems = got.tbl], found |-> TRUE,
             rows |-> got.rows]

\* The state of one run: the database, the two counters and the ignored list.
NewRun(st) == [st |-> st, session_number |-> 0, asn_number |-> 0,
               ignored_autonomous_systems |-> <<>>]

\* One iteration of the loop over the router's neighbors. The creations are
\* logged in saves.
ImportOne(run, allowed_prefixes, c, session) ==
    LET ip == session.ip_address
        remote_asn == session.remote_asn
        existing == SessionLookup(run.st.ixps, c, ip)
        resolved == create_from_peeringdb(run.st, remote_asn)
    IN IF ~is_valid(allowed_prefixes, ip) THEN run
       ELSE IF Cardinality(existing) > 1
       THEN [run EXCEPT !.st = Raise(@, "MultipleObjectsReturned")]
       ELSE IF existing # {} THEN run
       ELSE IF resolved.found
       THEN [run EXCEPT
                !.st = [resolved.st EXCEPT
                            !.ixps = Append(@, ImportedSession(remote_asn, c, ip)),
                            !.saves = Append(@, [ip_address |-> ip, remote_asn |-> remote_asn])],
                !.asn_number = @ + 1,
                !.session_number = @ + 1]
       ELSE IF \E i \in 1..Len(run.ignored_autonomous_systems) :
                    run.ignored_autonomous_systems[i] = remote_asn
       THEN run
       ELSE [run EXCEPT !.ignored_autonomous_systems = Append(@, remote_asn)]

RECURSIVE ImportLoop(_, _, _, _)
ImportLoop(run, allowed_prefixes, c, sessions) ==
    IF sessions = <<>> \/ run.st.exc # "none" THEN run
    ELSE ImportLoop(ImportOne(run, allowed_prefixes, c, Head(sessions)),
                    allowed_prefixes, c, Tail(sessions))

\* import_sessions under @transaction.atomic, from the database st and the
\* answer of the connection's router.
import_sessions(st, ix, c, outcome) ==
    LET run == IF outcome.kind = "query_error"
               THEN [NewRun(st) EXCEPT !.st = Raise(@, "DeviceError")]
               ELSE ImportLoop(NewRun(st), get_prefixes(ix), c,
                               get_napalm_bgp_neighbors(outcome))
    IN [run EXCEPT !.st = Atomic(st, run.st)]

\* What an import leaves behind: the tables and the record of the call, with
\* the number of session rows and the AS rows the tables gained since before.
FinishImport(run, before, op, c, first) ==
    /\ direct' = run.st.direct
    /\ ixps' = run.st.ixps
    /\ groups' = run.st.groups
    /\ ixs' = run.st.ixs
    /\ connections' = connections
    /\ autonomous_systems' = run.st.autonomous_systems
    /\ ProcessUnchanged
    /\ now' = now + 1
    /\ last' = [op |-> op, scope |-> c,
                ret |-> IF run.st.exc = "none"
                        THEN <<run.session_number, run.asn_number>> ELSE "raised",
                exc |-> run.st.exc,
                ignored |-> run.ignored_autonomous_systems,
                saves |-> run.st.saves,
                created_sessions |-> Len(run.st.ixps) - Len(before.ixps),
                created_as |-> run.st.autonomous_systems \ before.autonomous_systems,
                first |-> first]

\* The exchange ix imports the sessions of the connection c.
ImportSessions(ix, c) ==
    /\ now < MaxTime
    /\ c \in DOMAIN connections
    /\ \E outcome \in NeighborOutcomes :
        FinishImport(import_sessions(Db, ix, c, outcome), Db, "import", [ix |-> ix, c |-> c], <<>>)

\* The import is run, and after it has returned it is run again while the
\* router reports the same neighbors.
ImportSessionsAgain(ix, c) ==
    /\ now < MaxTime
    /\ c \in DOMAIN connections
    /\ \E outcome \in NeighborOutcomes :
        LET once == import_sessions(Db, ix, c, outcome)
            again == import_sessions([once.st EXCEPT !.saves = <<>>], ix, c, outcome)
        IN /\ once.st.exc = "none"
           /\ FinishImport(again, once.st, "import_again", [ix |-> ix, c |-> c], once.st.saves)

(***************************************************************************)
(* InternetExchange.get_available_peers                                    *)
(***************************************************************************)
\* The addresses of one family among the exchange's sessions.
SessionAddresses(ix, version) ==
    {ixps[x].ip_address : x \in {y \in get_peering_sessions(ix) :
                                    ixps[y].ip_address.version = version}}

\* Q(field__in=list) on a nullable column: a null value is in no list.
InList(value, list) == value # NoAddr /\ value \in list

\* A faulty variant of Available that asks for both addresses to be free.
AvailableBoth(ix, m) ==
    /\ m.asn # ixs[ix].local_autonomous_system
    /\ m.ixlan = ixs[ix].peeringdb_ixlan
    /\ ~InList(m.ipaddr6, SessionAddresses(ix, 6))
    /\ ~InList(m.ipaddr4, SessionAddresses(ix, 4))

\* The filter of get_available_peers on one NetworkIXLan row.
Available(ix, m) ==
    /\ m.asn # ixs[ix].local_autonomous_system
    /\ m.ixlan = ixs[ix].peeringdb_ixlan
    /\ (~InList(m.ipaddr6, SessionAddresses(ix, 6))
            \/ ~InList(m.ipaddr4, SessionAddresses(ix, 4)))

\* The results order_by("asn") may give for the rows S: every order of them
\* that ascends by ASN (rows of equal ASN come in any order).
OrderByAsn(S) ==
    {o \in Orders(S) : \A i, j \in 1..Cardinality(S) :
        i < j => NetworkIXLans[o[i]].asn <= NetworkIXLans[o[j]].asn}

\* get_available_peers: the NetworkIXLan rows (by row number) it returns.
GetAvailablePeers(ix) ==
    /\ now < MaxTime
    /\ \E result \in IF ~linked_to_peeringdb(ix) THEN {<<>>}
                    ELSE OrderByAsn({i \in 1..Len(NetworkIXLans) : Available(ix, NetworkIXLans[i])}) :
        last' = [op |-> "available_peers", scope |-> [ix |-> ix, c |-> Null],
                 ret |-> result, exc |-> "none", ignored |-> <<>>, saves |-> <<>>,
                 created_sessions |-> 0, created_as |-> {}, first |-> <<>>]
    /\ now' = now + 1
    /\ UNCHANGED <<direct, ixps, groups, ixs, connections, autonomous_systems>>
    /\ ProcessUnchanged

(***************************************************************************)
(* Import and peer discovery on two exchanges                              *)
(***************************************************************************)
\* An already stored session of AS 2, used twice for a duplicated row.
StoredSession == ImportedSession(2, "c1", Addr(6, 3))

\* ix1 is linked to lan1, ix2 to no PeeringDB record and ix3 to lan2; c1 and
\* c2 attach r1 and r2 to ix1 and c3 attaches r1 to ix2. The local AS 1
\* exists; AS 2 exists or not; no session is stored, or the same session is
\* stored twice, or one session of AS 3 on an address of lan1.
InitImport ==
    /\ now = 0
    /\ last = NoCall
    /\ routers = RouterRows
    /\ NAPALM_ARGS = GlobalArgs
    /\ inflight = NoRun
    /\ direct = NoDirect
    /\ groups = [g \in Groups |-> NewScope(TRUE)]
    /\ ixs = [ix1 |-> LinkedScope("lan1"), ix2 |-> LinkedScope(Null), ix3 |-> LinkedScope("lan2")]
    /\ connections = [k \in {"c1", "c2", "c3"} |-> ConnectionRows[k]]
    /\ \/ autonomous_systems = LocalTable(<<1>>) /\ ixps = <<>>
       \/ autonomous_systems = LocalTable(<<1, 2>>) /\ ixps = <<>>
       \/ autonomous_systems = LocalTable(<<1, 2>>) /\ ixps = <<StoredSession, StoredSession>>
       \/ autonomous_systems = LocalTable(<<1, 3>>) /\ ixps = <<ImportedSession(3, "c1", Addr(4, 2))>>

\* The ASNs callers resolve: 1 and 2 have a Network record, 3 has none.
ResolvedAsns == {1, 2, 3}

\* AutonomousSystem.create_from_peeringdb(asn), called on its own.
CreateFromPeeringdb(asn) ==
    /\ now < MaxTime
    /\ LET done == create_from_peeringdb(Db, asn)
       IN /\ autonomous_systems' = done.st.autonomous_systems
          /\ last' = [op |-> "create_from_peeringdb", scope |-> [ix |-> Null, c |-> Null],
                      asn |-> asn, ret |-> done.rows, exc |-> "none", ignored |-> <<>>,
                      saves |-> <<>>, created_sessions |-> 0,
                      created_as |-> done.st.autonomous_systems \ autonomous_systems,
                      first |-> <<>>]
    /\ now' = now + 1
    /\ UNCHANGED <<direct, ixps, groups, ixs, connections>>
    /\ ProcessUnchanged

\* An exchange imports the sessions of its own connections.
NextImport ==
    \/ \E c \in {"c1", "c2", "c3"} : ImportSessions(ConnectionRows[c].internet_exchange_point, c)
    \/ \E c \in {"c1", "c2", "c3"} : ImportSessionsAgain(ConnectionRows[c].internet_exchange_point, c)
    \/ \E ix \in IXPs : GetAvailablePeers(ix)
    \/ \E asn \in ResolvedAsns : CreateFromPeeringdb(asn)

SpecImport == InitImport /\ [][NextImport]_vars

(***************************************************************************)
(* InternetExchangePeeringSession.is_abandoned                             *)
(***************************************************************************)
\* BGPState.IDLE and BGPState.ACTIVE
IDLE == "idle"

ACTIVE == "active"

\* A net.Connection row with its link to a PeeringDB member record: the row
\* number in NetworkIXLans, or 0 for none.
LinkedConnection(ix, r, netixlan) ==
    [internet_exchange_point |-> ix, router |-> r, peeringdb_netixlan |-> netixlan]

\* Connection.linked_to_peeringdb: the connection has a member record.
ConnectionLinked(c) == connections[c].peeringdb_netixlan # 0

\* AutonomousSystem.peeringdb_network: the Network of the ASN, if any.
peeringdb_network(asn) == asn \in Networks

\* The NetworkIXLan rows that objects.get(ipaddr4=...) or (ipaddr6=...)
\* matches.
MemberRows(ip) ==
    {i \in 1..Len(NetworkIXLans) :
        IF ip.version = 6 THEN NetworkIXLans[i].ipaddr6 = ip
        ELSE NetworkIXLans[i].ipaddr4 = ip}

\* InternetExchangePeeringSession.exists_in_peeringdb
exists_in_peeringdb(x) == MemberRows(ixps[x].ip_address) # {}

\* A faulty variant of is_abandoned that does not look at the BGP state.
IsAbandonedAnyState(x) ==
    ~(\/ ~ConnectionLinked(ixps[x].ixp_connection)
      \/ ~ixs[connections[ixps[x].ixp_connection].internet_exchange_point].check_bgp_session_states
      \/ ~peeringdb_network(ixps[x].autonomous_system)
      \/ exists_in_peeringdb(x))

\* InternetExchangePeeringSession.is_abandoned, for a session on a connection
\* and a member address that at most one NetworkIXLan row has.
is_abandoned(x) ==
    ~(\/ ~ConnectionLinked(ixps[x].ixp_connection)
      \/ ~ixs[connections[ixps[x].ixp_connection].internet_exchange_point].check_bgp_session_states
      \/ ~peeringdb_network(ixps[x].autonomous_system)
      \/ exists_in_peeringdb(x)
      \/ ixps[x].bgp_state \notin {IDLE, ACTIVE})

\* The call session.is_abandoned().
IsAbandoned(x) ==
    /\ now < MaxTime
    /\ x \in DOMAIN ixps
    /\ last' = [op |-> "is_abandoned", scope |-> x,
                ret |-> IF is_abandoned(x) THEN "True" ELSE "False", exc |-> "none"]
    /\ now' = now + 1
    /\ UNCHANGED <<direct, ixps, groups, ixs, connections, autonomous_systems>>
    /\ ProcessUnchanged

\* InternetExchange.link_to_peeringdb: the LAN of the member records the
\* exchange's connections are linked to, none when no connection is linked.
link_to_peeringdb(conns) ==
    IF \E c \in DOMAIN conns : conns[c].peeringdb_netixlan # 0
    THEN NetworkIXLans[conns[CHOOSE c \in DOMAIN conns : conns[c].peeringdb_netixlan # 0]
                            .peeringdb_netixlan].ixlan
    ELSE Null

\* One session of AS 2 (with Network record) or AS 3 (without), on an address
\* that a member record has or on one that none has, in any BGP state, on
\* the connection c1. The exchange has the connections c1 and c2, each with or
\* without member record, and is linked to PeeringDB through them; its state
\* check is on or off.
InitAbandoned ==
    /\ now = 0
    /\ last = NoCall
    /\ routers = RouterRows
    /\ NAPALM_ARGS = GlobalArgs
    /\ inflight = NoRun
    /\ direct = NoDirect
    /\ groups = [g \in Groups |-> NewScope(TRUE)]
    /\ autonomous_systems = LocalTable(<<1, 2, 3>>)
    /\ \E n1 \in {0, 3}, n2 \in {0, 3} :
        connections = [c1 |-> LinkedConnection("ix1", "r1", n1),
                       c2 |-> LinkedConnection("ix1", "r2", n2)]
    /\ \E check \in BOOLEAN :
        ixs = [i \in {"ix1"} |->
                [LinkedScope(link_to_peeringdb(connections)) EXCEPT
                    !.check_bgp_session_states = check]]
    /\ \E asn \in {2, 3}, ip \in {Addr(4, 1), Addr(6, 3), Addr(4, 5)},
          state \in {IDLE, ACTIVE, ESTABLISHED, "connect"} :
        ixps = <<[ImportedSession(asn, "c1", ip) EXCEPT !.bgp_state = state]>>

NextAbandoned == \E x \in {1} : IsAbandoned(x)

SpecAbandoned == InitAbandoned /\ [][NextAbandoned]_vars

(***************************************************************************)
(* Router: the NAPALM driver, configuration pushes, neighbor fetches       *)
(***************************************************************************)
\* dict.update
Update(args, more) == [k \in ArgKeys |-> IF more[k] # Unset THEN more[k] ELSE args[k]]

\* Router.get_napalm_device: device tells whether a driver instance is
\* returned, args are its optional_args, global is settings.NAPALM_ARGS after
\* the call.  args is the settings dict itself, so both updates land in it.
get_napalm_device(row, global, installed) ==
    IF ~row.platform \/ ~installed
    THEN [device |-> FALSE, args |-> NoArgs, global |-> global]
    ELSE LET args == Update(Update(global, row.platform_args), row.napalm_args)
         IN [device |-> TRUE, args |-> args, global |-> args]

\* One call on the driver instance, and whether it returned.
Call(name, ok) == [call |-> name, ok |-> ok]

\* What the device does to the calls made on it.
OpenBehaviours == {"open_fails", "ok"}
FetchBehaviours == OpenBehaviours \cup {"query_raises"}
MergeBehaviours == OpenBehaviours \cup {"merge_raises", "compare_raises", "finish_raises"}

\* Router.open_napalm_device
open_napalm_device(device, behaviour) ==
    [opened |-> device /\ behaviour # "open_fails",
     calls |-> IF device THEN <<Call("open", behaviour # "open_fails")>> ELSE <<>>]

\* Router.close_napalm_device
close_napalm_device(device) == IF device THEN <<Call("close", TRUE)>> ELSE <<>>

\* The configurations a caller passes; a str is the sequence of its characters.
Configs ==
    {[type |-> "NoneType", text |-> <<>>], [type |-> "int", text |-> <<>>],
     [type |-> "str", text |-> <<>>], [type |-> "str", text |-> <<" ", "\n">>],
     [type |-> "str", text |-> <<" ", "a">>]}

\* str.strip(), as far as the test for a blank string needs it.
Strip(text) == SelectSeq(text, LAMBDA ch : ch \notin {" ", "\n"})

\* config is None or not isinstance(config, str) or not config.strip()
NoConfiguration(config) == config.type # "str" \/ Strip(config.text) = <<>>

\* A faulty variant of the try block that commits whatever the commit flag.
MergeCallsAlwaysCommit(commit, behaviour) ==
    <<Call("load_merge_candidate", TRUE), Call("compare_config", TRUE),
      Call("commit_config", behaviour # "finish_raises")>>

\* The calls of the try block of set_napalm_configuration.
MergeCalls(commit, behaviour) ==
    LET load == <<Call("load_merge_candidate", behaviour # "merge_raises")>>
        compare == <<Call("compare_config", behaviour # "compare_raises")>>
        finish == <<Call(IF commit THEN "commit_config" ELSE "discard_config",
                         behaviour # "finish_raises")>>
    IN IF behaviour = "merge_raises" THEN load
       ELSE IF behaviour = "compare_raises" THEN load \o compare
       ELSE load \o compare \o finish

\* Router.set_napalm_configuration
set_napalm_configuration(row, global, config, commit, installed, behaviour) ==
    IF row.device_state = Disabled
    THEN [error |-> "device is disabled, cannot deploy config", changes |-> "None",
          calls |-> <<>>, global |-> global]
    ELSE IF NoConfiguration(config)
    THEN [error |-> "no configuration found to be merged", changes |-> "None",
          calls |-> <<>>, global |-> global]
    ELSE LET built == get_napalm_device(row, global, installed)
             open == open_napalm_device(built.device, behaviour)
             merge == MergeCalls(commit, behaviour)
             merged == \A i \in 1..Len(merge) : merge[i].ok
         IN IF open.opened
            THEN [error |-> IF merged THEN "None" ELSE "unable to merge configuration",
                  changes |-> IF merged THEN "diff" ELSE "None",
                  calls |-> open.calls \o merge \o close_napalm_device(built.device),
                  global |-> built.global]
            ELSE [error |-> "unable to connect", changes |-> "None",
                  calls |-> open.calls, global |-> built.global]

\* Router.get_napalm_bgp_neighbors and Router.get_napalm_bgp_neighbors_detail:
\* nothing catches an exception of the device query, and the close comes
\* after the query.
napalm_fetch(row, global, query, installed, behaviour) ==
    LET built == get_napalm_device(row, global, installed)
        open == open_napalm_device(built.device, behaviour)
    IN IF ~open.opened
       THEN [ret |-> "[]", exc |-> "none", calls |-> open.calls, global |-> built.global]
       ELSE IF behaviour = "query_raises"
       THEN [ret |-> "raised", exc |-> "DeviceError",
             calls |-> open.calls \o <<Call(query, FALSE)>>, global |-> built.global]
       ELSE [ret |-> "data", exc |-> "none",
             calls |-> open.calls \o <<Call(query, TRUE)>> \o close_napalm_device(built.device),
             global |-> built.global]

\* The connections a sequence of driver calls leaves open: 1 when it opened
\* one and did not close it.
LeftOpen(calls) ==
    IF /\ \E i \in 1..Len(calls) : calls[i] = Call("open", TRUE)
       /\ \A i \in 1..Len(calls) : calls[i].call # "close"
    THEN 1 ELSE 0

\* The record of a call on a router.
FinishDevice(op, r, input, ret, exc, calls, args, global) ==
    /\ now < MaxTime
    /\ NAPALM_ARGS' = global
    /\ last' = [op |-> op, scope |-> r, input |-> input, ret |-> ret, exc |-> exc,
                calls |-> calls, args |-> args,
                open_before |-> last.open_after,
                open_after |-> [last.open_after EXCEPT ![r] = @ + LeftOpen(calls)]]
    /\ now' = now + 1
    /\ UNCHANGED <<direct, ixps, groups, ixs, connections, autonomous_systems,
                   routers, inflight>>

NoInput == [config |-> [type |-> "NoneType", text |-> <<>>], commit |-> FALSE]

GetNapalmDevice(r) ==
    \E installed \in BOOLEAN :
        LET built == get_napalm_device(routers[r], NAPALM_ARGS, installed)
        IN FinishDevice("get_napalm_device", r, NoInput,
                        IF built.device THEN "driver" ELSE "None", "none", <<>>,
                        built.args, built.global)

SetNapalmConfiguration(r) ==
    \E config \in Configs, commit \in BOOLEAN, behaviour \in MergeBehaviours :
        LET done == set_napalm_configuration(routers[r], NAPALM_ARGS, config, commit,
                                             TRUE, behaviour)
        IN FinishDevice("set_napalm_configuration", r,
                        [config |-> config, commit |-> commit],
                        <<done.error, done.changes>>, "none", done.calls, NoArgs,
                        done.global)

GetNapalmBgpNeighbors(r) ==
    \E behaviour \in FetchBehaviours :
        LET done == napalm_fetch(routers[r], NAPALM_ARGS, "get_bgp_neighbors", TRUE, behaviour)
        IN FinishDevice("get_napalm_bgp_neighbors", r, NoInput, done.ret, done.exc,
                        done.calls, NoArgs, done.global)

GetNapalmBgpNeighborsDetail(r) ==
    \E behaviour \in FetchBehaviours :
        LET done == napalm_fetch(routers[r], NAPALM_ARGS, "get_bgp_neighbors_detail", TRUE,
                                 behaviour)
        IN FinishDevice("get_napalm_bgp_neighbors_detail", r, NoInput, done.ret, done.exc,
                        done.calls, NoArgs, done.global)

\* Two routers of one platform whose napalm_args sets the secret; r1 may set
\* its own port, r2 may be disabled, in maintenance or without platform.
InitDevice ==
    /\ \E own \in {NoArgs, [NoArgs EXCEPT !["port"] = "router"]},
          state \in {Enabled, Disabled, Maintenance}, platform \in BOOLEAN :
          routers = [r1 |-> RouterRow(TRUE, [NoArgs EXCEPT !["secret"] = "platform"],
                                      own, Enabled),
                     r2 |-> RouterRow(platform, [NoArgs EXCEPT !["secret"] = "platform"],
                                      NoArgs, state)]
    /\ NAPALM_ARGS = GlobalArgs
    /\ inflight = NoRun
    /\ direct = NoDirect
    /\ ixps = NoIxpSession
    /\ groups = [g \in {} |-> 0]
    /\ ixs = [ix \in {} |-> 0]
    /\ connections = [c \in {} |-> 0]
    /\ autonomous_systems = {}
    /\ now = 0
    /\ last = [op |-> "none", scope |-> "", input |-> NoInput, ret |-> "", exc |-> "none",
               calls |-> <<>>, args |-> NoArgs,
               open_before |-> [r \in Routers |-> 0], open_after |-> [r \in Routers |-> 0]]

NextDevice ==
    \E r \in Routers :
        \/ GetNapalmDevice(r)
        \/ SetNapalmConfiguration(r)
        \/ GetNapalmBgpNeighbors(r)
        \/ GetNapalmBgpNeighborsDetail(r)

SpecDevice == InitDevice /\ [][NextDevice]_vars

(***************************************************************************)
(* Router._napalm_bgp_neighbors_to_peer_list on its own                    *)
(***************************************************************************)
\* The peers dict of one VRF: one or two peers under different keys.
VrfPeers ==
    {<<e>> : e \in Peers}
        \cup {<<p[1], p[2]>> : p \in {q \in Peers \X Peers : q[1].ip # q[2].ip}}

\* What the caller passes as napalm_dict: None, or a dict of up to two VRFs.
NormalizerInputs ==
    {[given |-> FALSE, vrfs |-> <<>>], [given |-> TRUE, vrfs |-> <<>>]}
        \cup {[given |-> TRUE, vrfs |-> <<v>>] : v \in VrfPeers}
        \cup {[given |-> TRUE, vrfs |-> <<v, w>>] : v, w \in VrfPeers}

\* One call of the normalizer on the input the behaviour started with.
NapalmBgpNeighborsToPeerList ==
    /\ now < MaxTime
    /\ last' = [op |-> "_napalm_bgp_neighbors_to_peer_list", input |-> last.input,
                exc |-> "none",
                ret |-> IF ~last.input.given THEN <<>>
                        ELSE napalm_bgp_neighbors_to_peer_list(last.input.vrfs)]
    /\ now' = now + 1
    /\ UNCHANGED <<direct, ixps, groups, ixs, connections, autonomous_systems>>
    /\ ProcessUnchanged

InitNormalizer ==
    /\ routers = RouterRows
    /\ NAPALM_ARGS = GlobalArgs
    /\ inflight = NoRun
    /\ direct = NoDirect
    /\ ixps = NoIxpSession
    /\ groups = [g \in {} |-> 0]
    /\ ixs = [ix \in {} |-> 0]
    /\ connections = [c \in {} |-> 0]
    /\ autonomous_systems = {}
    /\ now = 0
    /\ \E input \in NormalizerInputs :
          last = [op |-> "none", input |-> input, exc |-> "none", ret |-> <<>>]

NextNormalizer == NapalmBgpNeighborsToPeerList

SpecNormalizer == InitNormalizer /\ [][NextNormalizer]_vars

(***************************************************************************)
(* Two overlapping runs of InternetExchange.import_sessions                *)
(***************************************************************************)
\* Each run is one transaction under READ COMMITTED, the isolation level of
\* the PostgreSQL database the address fields require: a statement sees the
\* rows committed before it and the rows of its own transaction.  No
\* statement of import_sessions takes a lock, and the session table has no
\* unique constraint on (ixp_connection, ip_address).
Runs == {1, 2}

\* The neighbor lists the router returns to both runs.
NeighborEntries ==
    {[ip_address |-> a, remote_asn |-> n] : a \in {Addr(4, 1), Addr(6, 3), Addr(4, 5)},
                                            n \in {2, 3}}
NeighborLists == {<<e>> : e \in NeighborEntries} \cup {<<e, f>> : e, f \in NeighborEntries}

Idle == [pc |-> "idle", sessions |-> <<>>, created |-> <<>>]

\* The session rows a statement of the run p sees.
View(p) == ixps \o inflight[p].created

StepUnchanged ==
    UNCHANGED <<direct, groups, ixs, connections, autonomous_systems, routers, NAPALM_ARGS, now>>

\* The run p enters import_sessions and reads the router's neighbors.
Begin(p) ==
    /\ inflight[p].pc = "idle"
    /\ inflight' = [inflight EXCEPT ![p] = [pc |-> "loop", sessions |-> last.sessions,
                                            created |-> <<>>]]
    /\ last' = [last EXCEPT !.op = "begin", !.run = p]
    /\ UNCHANGED ixps
    /\ StepUnchanged

\* One iteration of the loop of the run p: the lookup of the session, the
\* lookup of the AS (every AS with a Network record has its row already) and
\* the creation of the session.
Iterate(p) ==
    /\ inflight[p].pc = "loop"
    /\ inflight[p].sessions # <<>>
    /\ LET session == Head(inflight[p].sessions)
           ip == session.ip_address
           existing == SessionLookup(View(p), "c1", ip)
           resolved == create_from_peeringdb(Db, session.remote_asn)
       IN inflight' = [inflight EXCEPT ![p] =
              IF ~is_valid(get_prefixes("ix1"), ip) \/ Cardinality(existing) = 1
                    \/ (existing = {} /\ ~resolved.found)
              THEN [@ EXCEPT !.sessions = Tail(@)]
              ELSE IF Cardinality(existing) > 1
              THEN [pc |-> "raised", sessions |-> <<>>, created |-> <<>>]
              ELSE [@ EXCEPT !.sessions = Tail(@),
                             !.created = Append(@, ImportedSession(session.remote_asn,
                                                                   "c1", ip))]]
    /\ last' = [last EXCEPT !.op = "iterate", !.run = p]
    /\ UNCHANGED ixps
    /\ StepUnchanged

\* The run p returns, and its transaction commits or, after an exception,
\* rolls back.
End(p) ==
    /\ \/ inflight[p].pc = "loop" /\ inflight[p].sessions = <<>>
       \/ inflight[p].pc = "raised"
    /\ ixps' = ixps \o inflight[p].created
    /\ inflight' = [inflight EXCEPT ![p] = [pc |-> "done", sessions |-> <<>>,
                                            created |-> <<>>]]
    /\ last' = [last EXCEPT !.op = "end", !.run = p]
    /\ StepUnchanged

InitConcurrent ==
    /\ routers = RouterRows
    /\ NAPALM_ARGS = GlobalArgs
    /\ inflight = [p \in Runs |-> Idle]
    /\ direct = NoDirect
    /\ groups = [g \in Groups |-> NewScope(TRUE)]
    /\ ixs = [ix1 |-> LinkedScope("lan1")]
    /\ connections = [k \in {"c1"} |-> ConnectionRows[k]]
    /\ autonomous_systems = LocalTable(<<1, 2>>)
    /\ ixps \in {<<>>, <<ImportedSession(2, "c1", Addr(4, 1))>>}
    /\ now = 0
    /\ \E sessions \in NeighborLists :
          last = [op |-> "none", run |-> 0, sessions |-> sessions]

NextConcurrent == \E p \in Runs : Begin(p) \/ Iterate(p) \/ End(p)

SpecConcurrent == InitConcurrent /\ [][NextConcurrent]_vars

(***************************************************************************)
(* Properties                                                              *)
(***************************************************************************)
Range(seq) == {seq[i] : i \in 1..Len(seq)}

ScopePolls == {"group_poll", "ixp_poll"}

\* The routers in the scope the last call polled.
ScopeRouters ==
    IF last.op = "group_poll" THEN GroupRouters(last.scope)
    ELSE IF last.op = "ixp_poll" THEN get_routers(last.scope)
    ELSE {}

TablesUnchanged ==
    /\ direct' = direct
    /\ ixps' = ixps
    /\ groups' = groups
    /\ ixs' = ixs

\* The number of session rows the last call saved.
SessionSaves == Cardinality({i \in 1..Len(last.saves) : last.saves[i] = "session"})

\* C1: a poll stamps last_established_state only on a transition into
\* established: in a call that saves one session row, the stamp of a row
\* changes only if the row was not established before the call and is
\* established after it, so the same snapshot applied twice does not stamp
\* again.
C1_StampOnlyOnTransition ==
    [][SessionSaves' = 1 =>
        /\ \A d \in DOMAIN direct :
            direct'[d].last_established_state # direct[d].last_established_state
                => direct[d].bgp_state # ESTABLISHED /\ direct'[d].bgp_state = ESTABLISHED
        /\ \A x \in DOMAIN ixps :
            ixps'[x].last_established_state # ixps[x].last_established_state
                => ixps[x].bgp_state # ESTABLISHED /\ ixps'[x].bgp_state = ESTABLISHED]_vars

\* C2: an IXP poll changes only sessions whose connection belongs to the
\* polled IXP.
C2_IxpPollScoped ==
    [][last'.op = "ixp_poll" =>
        \A x \in DOMAIN ixps :
            connections[ixps[x].ixp_connection].internet_exchange_point # last'.scope
                => ixps'[x] = ixps[x]]_vars

\* C3: every stored session has non-negative prefix counters.
C3_CountsNonNegative ==
    /\ \A d \in DOMAIN direct :
        direct[d].received_prefix_count >= 0 /\ direct[d].advertised_prefix_count >= 0
    /\ \A x \in DOMAIN ixps :
        ixps[x].received_prefix_count >= 0 /\ ixps[x].advertised_prefix_count >= 0

\* C4: a scope poll that returns does so with True exactly when at least one
\* router in scope returned live neighbor data that was processed.
C4_TrueIffLiveData ==
    (last.op \in ScopePolls /\ last.ret # "raised")
        => (last.ret = "True" <=> last.live # {})

\* C5: a router without data does not abort the poll of its scope: a scope
\* poll that queried a router and returned has queried every router in scope.
C5_EveryRouterQueried ==
    (last.op \in ScopePolls /\ last.ret # "raised" /\ last.calls # <<>>)
        => Range(last.calls) = ScopeRouters

\* C6: a scope poll writes the last-poll timestamp once, as its final write,
\* after every router in scope was processed, and only when it returns True.
C6_TimestampFinalWrite ==
    (last.op \in ScopePolls /\ \E i \in 1..Len(last.saves) : last.saves[i] = "timestamp")
        => /\ last.ret = "True"
           /\ Range(last.calls) = ScopeRouters
           /\ \A i \in 1..Len(last.saves) : last.saves[i] = "timestamp" <=> i = Len(last.saves)

\* C7: a scope poll that raises persists nothing: sessions, groups and
\* exchanges are stored as before the call.
C7_RaisedPollRollsBack ==
    [][(last'.op \in ScopePolls /\ last'.ret = "raised") => TablesUnchanged]_vars

\* C7 witness: an IXP poll raised after it had saved a session and the
\* timestamp.
C7_Witness ==
    /\ last.op = "ixp_poll"
    /\ last.ret = "raised"
    /\ \E i, j \in 1..Len(last.saves) : last.saves[i] = "session" /\ last.saves[j] = "timestamp"

\* C8: with the scope's check_bgp_session_states off, a scope poll returns
\* False, queries no router and changes no stored row.
C8_CheckDisabledIsNoOp ==
    [][/\ (last'.op = "group_poll" /\ ~groups[last'.scope].check_bgp_session_states)
            => (last'.ret = "False" /\ last'.calls = <<>> /\ TablesUnchanged)
       /\ (last'.op = "ixp_poll" /\ ~ixs[last'.scope].check_bgp_session_states)
            => (last'.ret = "False" /\ last'.calls = <<>> /\ TablesUnchanged)]_vars

\* C8 witness: a poll of an exchange that has connected routers and sessions
\* while its check is off.
C8_Witness ==
    /\ last.op = "ixp_poll"
    /\ ~ixs[last.scope].check_bgp_session_states
    /\ get_routers(last.scope) # {}
    /\ get_peering_sessions(last.scope) # {}

\* C9: a poll of a scope with nothing to check (a group without sessions, an
\* exchange without connected router and without session) returns False and
\* saves nothing.
C9_EmptyScopeReturnsFalse ==
    /\ (last.op = "group_poll" /\ GroupRouters(last.scope) = {})
        => (last.ret = "False" /\ last.saves = <<>>)
    /\ (last.op = "ixp_poll" /\ get_routers(last.scope) = {}
            /\ get_peering_sessions(last.scope) = {})
        => (last.ret = "False" /\ last.saves = <<>>)

\* C10: a scope poll creates no session row, and a row whose address no
\* neighbor record of that poll reported is stored as before.
C10_UnreportedUntouched ==
    [][last'.op \in ScopePolls =>
        /\ DOMAIN direct' = DOMAIN direct
        /\ DOMAIN ixps' = DOMAIN ixps
        /\ \A d \in DOMAIN direct :
            direct[d].ip_address \notin last'.reported => direct'[d] = direct[d]
        /\ \A x \in DOMAIN ixps :
            ixps[x].ip_address \notin last'.reported => ixps'[x] = ixps[x]]_vars

\* C10 witness: a group poll saved a session while another session's address
\* was not reported.
C10_Witness ==
    /\ last.op = "group_poll"
    /\ last.ret = "True"
    /\ \E i \in 1..Len(last.saves) : last.saves[i] = "session"
    /\ \E d \in DOMAIN direct : direct[d].ip_address \notin last.reported

\* C11: a matched neighbor record without a received or advertised prefix
\* count does not make the poll fail: no poll ends with the TypeError that
\* comparing a missing count raises.
C11_AbsentCountStoredAsZero == last.exc # "TypeError"

\* The per-session polls.
SessionPolls == {"direct_poll", "ixp_session_poll"}

\* C12: a per-session poll that gets no detail for the session's address
\* returns False, and a per-session poll that does not return True leaves
\* the stored rows as they were; in particular a poll of a session with no
\* usable router does not fail.
C12_NoDetailReturnsFalse ==
    [][last'.op \in SessionPolls =>
        LET ip == IF last'.op = "direct_poll" THEN direct[last'.scope].ip_address
                  ELSE ixps[last'.scope].ip_address
        IN /\ last'.calls = <<>> => last'.ret = "False"
           /\ (last'.exc = "none" /\ ip \notin last'.reported) => last'.ret = "False"
           /\ last'.ret # "True" => TablesUnchanged]_vars

\* C13: a failure on the device side is treated as no data: no call ends
\* with the exception a failing device query raises.
C13_NoDeviceExceptionPropagates == last.exc # "DeviceError"

\* The calls of import_sessions the model makes.
Imports == {"import", "import_again"}

\* The rows of the session table that the step has added.
NewRows == {i \in DOMAIN ixps' : i \notin DOMAIN ixps}

\* C14: an import that is run again on the same connection, after it
\* returned and while the router reports the same neighbors, creates no
\* session and no AS and returns (0, 0).
C14_ImportIdempotent ==
    last.op = "import_again" =>
        /\ last.exc = "none"
        /\ last.ret = <<0, 0>>
        /\ last.created_sessions = 0
        /\ last.created_as = {}

\* C14 witness: the second run of an import whose first run created two
\* sessions.
C14_Witness == last.op = "import_again" /\ Len(last.first) = 2

\* C15: an import adds no session on a (connection, address) that another
\* session has, be that session an older one or one added by the same call.
C15_NoDuplicateSession ==
    [][last'.op \in Imports =>
        \A i \in NewRows : \A j \in DOMAIN ixps' :
            (ixps'[j].ixp_connection = ixps'[i].ixp_connection
                /\ ixps'[j].ip_address = ixps'[i].ip_address) => j = i]_vars

\* C15 witness: an import created a session although a session with the
\* same address exists on another connection.
C15_Witness ==
    /\ last.op = "import"
    /\ last.created_sessions > 0
    /\ \E i, j \in DOMAIN ixps :
        /\ ixps[i].ip_address = ixps[j].ip_address
        /\ ixps[i].ixp_connection # ixps[j].ixp_connection

\* C16: the address of every session an import creates lies in a prefix of
\* the importing exchange's PeeringDB LAN that has the address's family, and
\* an exchange without PeeringDB record creates no session and no AS.
C16_ImportedInsidePrefix ==
    [][last'.op \in Imports =>
        LET lan == ixs[last'.scope.ix].peeringdb_ixlan
        IN /\ \A i \in NewRows : \E k \in 1..Len(IXLanPrefixes) :
                /\ IXLanPrefixes[k].ixlan = lan
                /\ IXLanPrefixes[k].prefix.version = ixps'[i].ip_address.version
                /\ ixps'[i].ip_address.host \in IXLanPrefixes[k].prefix.hosts
           /\ lan = Null => (ixps' = ixps /\ autonomous_systems' = autonomous_systems)]_vars

\* C16 witness: an import created a v6 session.
C16_Witness ==
    /\ last.op = "import"
    /\ \E k \in 1..Len(last.saves) : last.saves[k].ip_address.version = 6

\* C17: an import creates no session and no AS for an ASN without PeeringDB
\* network record, lists no ASN twice as ignored, and every session it
\* creates references the stored AS of its neighbor's remote ASN.
C17_UnresolvedAsnIgnored ==
    [][last'.op = "import" =>
        /\ \A i \in NewRows : ixps'[i].autonomous_system \in Networks
        /\ Asns(autonomous_systems' \ autonomous_systems) \subseteq Networks
        /\ \A i, j \in 1..Len(last'.ignored) : last'.ignored[i] = last'.ignored[j] => i = j
        /\ \A i \in 1..Len(last'.ignored) : last'.ignored[i] \notin Networks
        /\ last'.exc = "none" =>
            /\ Len(ixps') = Len(ixps) + Len(last'.saves)
            /\ \A k \in 1..Len(last'.saves) :
                /\ ixps'[Len(ixps) + k].autonomous_system = last'.saves[k].remote_asn
                /\ ixps'[Len(ixps) + k].ip_address = last'.saves[k].ip_address
                /\ last'.saves[k].remote_asn \in Asns(autonomous_systems')]_vars

\* C17 witness: an import ignored an ASN and created a session.
C17_Witness ==
    /\ last.op = "import"
    /\ last.ignored # <<>>
    /\ last.created_sessions > 0

\* C18: an import returns the number of sessions it created and the number
\* of AS rows it created.
C18_ReturnsCreatedCounts ==
    (last.op = "import" /\ last.exc = "none") =>
        last.ret = <<last.created_sessions, Cardinality(last.created_as)>>

\* C19: an import that raises leaves the sessions and the AS rows as they
\* were before the call.
C19_RaisedImportRollsBack ==
    [][(last'.op = "import" /\ last'.exc # "none") =>
        (ixps' = ixps /\ autonomous_systems' = autonomous_systems)]_vars

\* C19 witness: an import raised after it had created a session.
C19_Witness ==
    /\ last.op = "import"
    /\ last.exc = "MultipleObjectsReturned"
    /\ last.saves # <<>>

\* The session addresses of one family on the connections of the exchange.
ExistingAddresses(ix, version) ==
    {ixps[x].ip_address : x \in {y \in DOMAIN ixps :
        /\ ixps[y].ixp_connection \in DOMAIN connections
        /\ connections[ixps[y].ixp_connection].internet_exchange_point = ix
        /\ ixps[y].ip_address.version = version}}

\* C20: get_available_peers returns nothing for an exchange without
\* PeeringDB record; otherwise it returns, each once and by ascending ASN,
\* the members of the exchange's LAN whose ASN is not the local one and
\* whose v6 address is not a v6 session address of the exchange or whose v4
\* address is not a v4 session address of it.
C20_AvailablePeers ==
    last.op = "available_peers" =>
        LET ix == last.scope.ix
            ret == last.ret
        IN IF ixs[ix].peeringdb_ixlan = Null THEN ret = <<>>
           ELSE /\ Range(ret) =
                    {i \in 1..Len(NetworkIXLans) :
                        /\ NetworkIXLans[i].ixlan = ixs[ix].peeringdb_ixlan
                        /\ NetworkIXLans[i].asn # ixs[ix].local_autonomous_system
                        /\ \/ NetworkIXLans[i].ipaddr6 \notin ExistingAddresses(ix, 6)
                           \/ NetworkIXLans[i].ipaddr4 \notin ExistingAddresses(ix, 4)}
                /\ \A i, j \in 1..Len(ret) :
                    i < j => (ret[i] # ret[j]
                                /\ NetworkIXLans[ret[i]].asn <= NetworkIXLans[ret[j]].asn)

\* C20 witness: a member is returned whose v4 address is peered and whose v6
\* address is not.
C20_Witness ==
    /\ last.op = "available_peers"
    /\ \E k \in 1..Len(last.ret) :
        /\ NetworkIXLans[last.ret[k]].ipaddr4 \in ExistingAddresses(last.scope.ix, 4)
        /\ NetworkIXLans[last.ret[k]].ipaddr6 # NoAddr
        /\ NetworkIXLans[last.ret[k]].ipaddr6 \notin ExistingAddresses(last.scope.ix, 6)

\* Whether the exchange of the session's connection has a PeeringDB record.
ExchangeLinked(x) ==
    ixs[connections[ixps[x].ixp_connection].internet_exchange_point].peeringdb_ixlan # Null

\* C21: is_abandoned returns True exactly when the exchange of the session's
\* connection is linked to PeeringDB and checks session states, the
\* session's AS has a PeeringDB network record, no member record has the
\* session's address and the state is idle or active; it returns False
\* otherwise and changes no stored row.
C21_AbandonedIffAllFive ==
    [][last'.op = "is_abandoned" =>
        LET x == last'.scope
            ix == connections[ixps[x].ixp_connection].internet_exchange_point
        IN /\ last'.ret \in {"True", "False"}
           /\ last'.ret = "True" <=>
                /\ ExchangeLinked(x)
                /\ ixs[ix].check_bgp_session_states
                /\ ixps[x].autonomous_system \in Networks
                /\ \A i \in 1..Len(NetworkIXLans) :
                    /\ NetworkIXLans[i].ipaddr4 # ixps[x].ip_address
                    /\ NetworkIXLans[i].ipaddr6 # ixps[x].ip_address
                /\ ixps[x].bgp_state \in {"idle", "active"}
           /\ TablesUnchanged]_vars

\* C22: an established session is never abandoned, and neither is a session
\* whose AS has no PeeringDB network record.
C22_EstablishedNeverAbandoned ==
    last.op = "is_abandoned" =>
        ((ixps[last.scope].bgp_state = "established"
            \/ ixps[last.scope].autonomous_system \notin Networks)
                => last.ret = "False")

\* C22 witness: the call on an established session that meets every other
\* condition of abandonment.
C22_Witness ==
    /\ last.op = "is_abandoned"
    /\ ixps[last.scope].bgp_state = "established"
    /\ IsAbandonedAnyState(last.scope)
    /\ last.ret = "False"

\* The number of times the call queried the router r.
QueriesOf(r) == Cardinality({i \in 1..Len(last.calls) : last.calls[i] = r})

\* C24: a scope poll that queries devices and returns has queried every
\* router in scope exactly once.
C24_OnceForEachRouter ==
    (last.op \in ScopePolls /\ last.ret # "raised" /\ last.calls # <<>>)
        => \A r \in ScopeRouters : QueriesOf(r) = 1

\* The names of the driver calls the last call made, in order.
CallNames == [i \in 1..Len(last.calls) |-> last.calls[i].call]

\* The driver calls of the last call that returned.
Succeeded == {last.calls[i].call : i \in {j \in 1..Len(last.calls) : last.calls[j].ok}}

\* C23: set_napalm_configuration calls commit_config only with commit=True, a
\* router that is not disabled, a non-blank string, an opened connection and
\* a merge and a diff that succeeded; with commit=False it never commits; for
\* a disabled router or a blank configuration it calls nothing on the device
\* and returns an error with changes None.
C23_CommitOnlyWhenAsked ==
    last.op = "set_napalm_configuration"
        => /\ "commit_config" \in Range(CallNames)
                => /\ last.input.commit
                   /\ routers[last.scope].device_state # Disabled
                   /\ ~NoConfiguration(last.input.config)
                   /\ {"open", "load_merge_candidate", "compare_config"} \subseteq Succeeded
           /\ (routers[last.scope].device_state = Disabled \/ NoConfiguration(last.input.config))
                => /\ last.calls = <<>>
                   /\ last.ret[1] # "None"
                   /\ last.ret[2] = "None"

\* C23 witness: a push with commit=True that reached commit_config.
C23_Witness ==
    /\ last.op = "set_napalm_configuration"
    /\ last.input.commit
    /\ Call("commit_config", TRUE) \in Range(last.calls)
    /\ last.ret = <<"None", "diff">>

\* C25: a fetch leaves no connection open that it opened, and starts with no
\* connection of an earlier fetch still open.
C25_OpenClosePaired ==
    last.op \in {"get_napalm_bgp_neighbors", "get_napalm_bgp_neighbors_detail"}
        => /\ LeftOpen(last.calls) = 0
           /\ \A r \in Routers : last.open_before[r] = 0

\* C30: get_napalm_device leaves settings.NAPALM_ARGS as configured and passes
\* the global arguments overridden by the platform's, overridden by the
\* router's.
C30_GlobalArgsUnchanged ==
    last.op = "get_napalm_device"
        => /\ NAPALM_ARGS = GlobalArgs
           /\ last.ret = "driver"
                => last.args = Update(Update(GlobalArgs, routers[last.scope].platform_args),
                                      routers[last.scope].napalm_args)

\* The peers of the VRFs in traversal order.
RECURSIVE Traversal(_)
Traversal(vrfs) == IF vrfs = <<>> THEN <<>> ELSE Head(vrfs) \o Traversal(Tail(vrfs))

\* The peers of a traversal that have a remote_as and an address that parses.
Usable(peers) ==
    SelectSeq(peers, LAMBDA e : e.details.has_remote_as /\ ip_address(e.ip) # <<>>)

\* Position i of a sequence of usable peers is the first one of its address.
FirstOfAddress(peers, i) ==
    \A j \in 1..(i - 1) : ip_address(peers[j].ip) # ip_address(peers[i].ip)

\* The entries of the usable peers that are first of their address, in order.
RECURSIVE Entries(_, _)
Entries(peers, i) ==
    IF i > Len(peers) THEN <<>>
    ELSE (IF FirstOfAddress(peers, i)
          THEN <<[ip_address |-> ip_address(peers[i].ip)[1],
                  remote_asn |-> peers[i].details.remote_as]>>
          ELSE <<>>) \o Entries(peers, i + 1)

Normalized == last.op = "_napalm_bgp_neighbors_to_peer_list"

\* C26: the normalizer's list never has two entries with the same address,
\* and the entry of an address is that of its first occurrence.
C26_NoDuplicateAddress ==
    Normalized
        => /\ \A i, j \in 1..Len(last.ret) :
                  last.ret[i].ip_address = last.ret[j].ip_address => i = j
           /\ LET peers == Usable(Traversal(last.input.vrfs))
              IN \A i \in 1..Len(last.ret) :
                    \E k \in 1..Len(peers) :
                        /\ FirstOfAddress(peers, k)
                        /\ ip_address(peers[k].ip)[1] = last.ret[i].ip_address
                        /\ peers[k].details.remote_as = last.ret[i].remote_asn

\* C27: the normalizer's list is, in traversal order, one entry for each
\* peer with a remote_as and a parsable address that is not a duplicate; no
\* call raises, and empty or missing input gives the empty list.
C27_ExactlyTheUsablePeers ==
    Normalized
        => /\ last.exc = "none"
           /\ last.ret = Entries(Usable(Traversal(last.input.vrfs)), 1)

C29_OverlappingImportsNoDuplicate ==
    (\A p \in Runs : inflight[p].pc = "done")
        => \A i, j \in DOMAIN ixps :
              (ixps[i].ixp_connection = ixps[j].ixp_connection
                  /\ ixps[i].ip_address = ixps[j].ip_address) => i = j

====
